---------------------------- MODULE Spec2Model ----------------------------
(***************************************************************************)
(* Domain availability checker (orthdron/domaincheckapi).                  *)
(*                                                                         *)
(* Two variants of the service live in the repository: the packaged        *)
(* application (src/app/core/domain.py, src/app/api/routes.py), called     *)
(* "app" here, and the single-file application (src/script.py), called     *)
(* "script".  Both are modelled; the variable `variant' says which one a   *)
(* behaviour runs.                                                         *)
(*                                                                         *)
(* Python strings are sequences of one-character strings, so that          *)
(* strip(), lstrip('.'), lower() and the regular expressions are computed  *)
(* character by character as the code computes them.                       *)
(***************************************************************************)
EXTENDS Integers, Sequences, FiniteSets, TLC

VARIABLES
    variant,    \* "app" or "script": which application serves the requests
    vpc,        \* validator harness: "input", or the validation that ran
    vLabel,     \* validator harness: the raw domain label
    vTld,       \* validator harness: the raw TLD (an optional string)
    vOut,       \* validator harness: what the validation returned
    cache,      \* the result cache: key -> stored verdict (the unexpired entries)
    pc,         \* per worker: "idle", the probe it waits for ("whois", "dns"), or "done"
    req,        \* per worker: the request being served, or the last one served
    cur,        \* per worker: the canonical name, TLD and bulk position being resolved
    call,       \* per worker: the with_timeout call in progress and its elapsed seconds
    probeRes,   \* per worker: whois_result, dns_result and status of the handler
    acc,        \* per worker: the results and errors a bulk request has collected
    stats,      \* per worker: probe invocations, cache reads and writes of the request
    resp,       \* per worker: the response of the request served
    prev,       \* per worker: the verdict its previous request returned, when that
                \* was a successful single check and its cache entry has not expired
    now,        \* the clock read by cache.set and cache.get, in seconds; it moves in
                \* SpecT only, the other specifications abstract the TTL into Expire
    expires     \* key -> the time at which the entry stored under it expires

vvars == <<vpc, vLabel, vTld, vOut>>
svars == <<cache, pc, req, cur, call, probeRes, acc, stats, resp, prev, now, expires>>

vars == <<variant, vpc, vLabel, vTld, vOut, cache, pc, req, cur, call, probeRes, acc,
          stats, resp, prev, now, expires>>

Variants == {"app", "script"}

\* all sequences over A of length at most n
SeqsUpTo(A, n) == UNION {[1..k -> A] : k \in 0..n}

\* n times the element c
Rep(c, n) == [i \in 1..n |-> c]


(***************************************************************************)
(* Characters and Python string methods                                    *)
(***************************************************************************)
LowerLetters == {"a", "b", "c", "i", "m", "o"}
UpperLetters == {"A", "B", "C", "I", "M", "O"}
Digits == {"0", "1"}
Whitespace == {" "}
AlNum == LowerLetters \cup Digits

\* str.lower() on one character
LowerChar(c) ==
    CASE c = "A" -> "a" [] c = "B" -> "b" [] c = "C" -> "c"
      [] c = "I" -> "i" [] c = "M" -> "m" [] c = "O" -> "o" [] OTHER -> c

\* str.lower()
Lower(s) == [i \in 1..Len(s) |-> LowerChar(s[i])]

RECURSIVE LStripSet(_, _)
\* str.lstrip(chars): drops every leading character that is in cs
LStripSet(s, cs) ==
    IF s = <<>> \/ Head(s) \notin cs THEN s ELSE LStripSet(Tail(s), cs)

RECURSIVE RStripSet(_, _)
\* str.rstrip(chars)
RStripSet(s, cs) ==
    IF s = <<>> \/ s[Len(s)] \notin cs THEN s
    ELSE RStripSet(SubSeq(s, 1, Len(s) - 1), cs)

\* str.strip(): whitespace off both ends
Strip(s) == RStripSet(LStripSet(s, Whitespace), Whitespace)

\* str.lstrip('.')
LStripDots(s) == LStripSet(s, {"."})

\* sub in s, for a two-character sub
Contains2(s, c1, c2) == \E i \in 1..(Len(s) - 1) : s[i] = c1 /\ s[i + 1] = c2

\* re.search(r'[^...]', s) for a character class cs
SearchNotIn(s, cs) == \E i \in 1..Len(s) : s[i] \notin cs

\* an optional string: a query parameter or JSON member that is absent, null, or a string
Absent == [kind |-> "absent", s |-> <<>>]
Null == [kind |-> "null", s |-> <<>>]
Str(s) == [kind |-> "str", s |-> s]

COM == <<"c", "o", "m">>

(***************************************************************************)
(* Validator: src/app/core/domain.py and src/script.py                     *)
(***************************************************************************)
MAX_LABEL_LEN == 63
MIN_TLD_LEN == 2

\* re.match(r'^[a-z0-9][a-z0-9-]*[a-z0-9]$', d)
MatchLabelRegex(d) ==
    /\ Len(d) >= 2
    /\ d[1] \in AlNum
    /\ d[Len(d)] \in AlNum
    /\ \A i \in 2..(Len(d) - 1) : d[i] \in AlNum \cup {"-"}

\* is_valid_domain_name without its check for consecutive hyphens (lines 28-30)
is_valid_domain_name_no_hyphen_check(domain) ==
    LET d == Lower(Strip(domain)) IN
    IF domain = <<>> THEN FALSE
    ELSE IF d = <<>> \/ Len(d) > MAX_LABEL_LEN THEN FALSE
    ELSE IF SearchNotIn(d, AlNum \cup {"-"}) THEN FALSE
    ELSE IF d[1] = "-" \/ d[Len(d)] = "-" THEN FALSE
    ELSE MatchLabelRegex(d)

\* is_valid_domain_name(domain), the same text in both variants
is_valid_domain_name(domain) ==
    LET d == Lower(Strip(domain)) IN
    IF domain = <<>> THEN FALSE
    ELSE IF d = <<>> \/ Len(d) > MAX_LABEL_LEN THEN FALSE
    ELSE IF SearchNotIn(d, AlNum \cup {"-"}) THEN FALSE
    ELSE IF d[1] = "-" \/ d[Len(d)] = "-" THEN FALSE
    ELSE IF Contains2(d, "-", "-") THEN FALSE
    ELSE MatchLabelRegex(d)

\* re.match(r'^[a-z]{2,}$', t)
MatchTldRegex(t) == Len(t) >= MIN_TLD_LEN /\ \A i \in 1..Len(t) : t[i] \in LowerLetters

\* is_valid_tld(tld), the same text in both variants
is_valid_tld(tld) ==
    LET t == Lower(LStripDots(Strip(tld))) IN
    IF tld = <<>> THEN FALSE
    ELSE IF t = <<>> \/ Len(t) < MIN_TLD_LEN THEN FALSE
    ELSE IF SearchNotIn(t, LowerLetters) THEN FALSE
    ELSE MatchTldRegex(t)

\* what a validation returns: the (name, tld, error) triple of clean_domain_input; `arg'
\* is the value that the bulk_check of src/script.py puts into its message, f"...{arg}"
Accepted(name, tld) ==
    [name |-> name, tld |-> tld, error |-> "None", arg |-> <<>>, raised |-> FALSE]
Rejected(msg) == [name |-> <<>>, tld |-> <<>>, error |-> msg, arg |-> <<>>, raised |-> FALSE]
\* src/script.py: errors.append(f"Invalid TLD: {tld}"), f"Invalid domain name: {name}"
RejectedWith(msg, arg) ==
    [name |-> <<>>, tld |-> <<>>, error |-> msg, arg |-> arg, raised |-> FALSE]
\* the validation itself raised (AttributeError: 'NoneType' object has no attribute 'strip')
Raised ==
    [name |-> <<>>, tld |-> <<>>, error |-> "AttributeError", arg |-> <<>>, raised |-> TRUE]

MissingDomainMsg == "Missing domain parameter"
InvalidDomainMsg == "Invalid domain name format"
InvalidTldMsg == "Invalid TLD format"

\* clean_domain_input(domain_name, tld) of src/app/core/domain.py; tld is None or a string
clean_domain_input_app(domain_name, tld) ==
    LET d == Lower(Strip(domain_name))
        t == IF tld.kind = "str" THEN Lower(LStripDots(Strip(tld.s))) ELSE COM
    IN  IF domain_name = <<>> THEN Rejected(MissingDomainMsg)
        ELSE IF tld.kind = "str" /\ t = <<>> THEN Rejected(InvalidTldMsg)
        ELSE IF ~is_valid_domain_name(d) THEN Rejected(InvalidDomainMsg)
        ELSE IF t # COM /\ ~is_valid_tld(t) THEN Rejected(InvalidTldMsg)
        ELSE Accepted(d, t)

\* clean_domain_input(domain_name, tld) of src/script.py; (tld or "com")
clean_domain_input_script(domain_name, tld) ==
    LET d == Lower(Strip(domain_name))
        t0 == IF tld.kind = "str" /\ tld.s # <<>> THEN tld.s ELSE COM
        t == Lower(LStripDots(Strip(t0)))
    IN  IF domain_name = <<>> THEN Rejected(MissingDomainMsg)
        ELSE IF ~is_valid_domain_name(d) THEN Rejected(InvalidDomainMsg)
        ELSE IF ~is_valid_tld(t) THEN Rejected(InvalidTldMsg)
        ELSE Accepted(d, t)

clean_domain_input(v, domain_name, tld) ==
    IF v = "app" THEN clean_domain_input_app(domain_name, tld)
    ELSE clean_domain_input_script(domain_name, tld)

\* request.args.get(name, default): a query parameter is absent or a string
ArgsGet(param, default) == IF param.kind = "str" THEN param.s ELSE default

\* a check_domain that cleans its parameters and validates nothing
ValidateSingleNoCheck(v, domain, tld) ==
    Accepted(Lower(Strip(ArgsGet(domain, <<>>))), Lower(LStripDots(Strip(ArgsGet(tld, COM)))))

\* check_domain of src/app/api/routes.py, lines 15-22: the validation of a single check
ValidateSingleApp(domain, tld) ==
    clean_domain_input_app(Strip(ArgsGet(domain, <<>>)), Str(Strip(ArgsGet(tld, COM))))

\* check_domain of src/script.py, lines 250-263: the validation of a single check
ValidateSingleScript(domain, tld) ==
    LET name == Strip(ArgsGet(domain, <<>>))
        t == Lower(LStripDots(Strip(ArgsGet(tld, COM))))
        d == Lower(Strip(name))
    IN  IF name = <<>> THEN Rejected(MissingDomainMsg)
        ELSE IF ~is_valid_tld(t) THEN Rejected(InvalidTldMsg)
        ELSE IF ~is_valid_domain_name(d) THEN Rejected(InvalidDomainMsg)
        ELSE Accepted(d, t)

ValidateSingle(v, domain, tld) ==
    IF v = "app" THEN ValidateSingleApp(domain, tld) ELSE ValidateSingleScript(domain, tld)

\* bulk_check of src/app/api/routes.py, lines 101 and 111: one item (a string) of the
\* "domains" list, with the request's "tld" member (absent, null or a string)
ValidateBulkItemApp(domain, tld) ==
    clean_domain_input_app(domain, IF tld.kind = "absent" THEN Str(COM) ELSE tld)

\* bulk_check of src/script.py, lines 359-372: one item {"domain": ..., "tld": ...}
ValidateBulkItemScript(domain, tld) ==
    LET name == Strip(domain)
        t == Lower(LStripDots(Strip(ArgsGet(tld, COM))))
        d == Lower(Strip(name))
    IN  IF name = <<>> THEN Rejected("Missing domain name")
        ELSE IF tld.kind = "null" THEN Raised
        ELSE IF ~is_valid_tld(t) THEN RejectedWith("Invalid TLD: ", t)
        ELSE IF ~is_valid_domain_name(d) THEN RejectedWith("Invalid domain name: ", d)
        ELSE Accepted(d, t)

ValidateBulkItem(v, domain, tld) ==
    IF v = "app" THEN ValidateBulkItemApp(domain, tld)
    ELSE ValidateBulkItemScript(domain, tld)

\* the reasons of the error taxonomy, whatever the wording of the variant
IsMissingDomain(msg) == msg \in {MissingDomainMsg, "Missing domain name"}
IsInvalidDomainFormat(msg) == msg \in {InvalidDomainMsg, "Invalid domain name: "}
IsInvalidTldFormat(msg) == msg \in {InvalidTldMsg, "Invalid TLD: "}
(***************************************************************************)
(* Probes and the with_timeout wrapper: src/app/core/domain.py 80-127,     *)
(* src/script.py 166-216                                                   *)
(***************************************************************************)
WHOIS_TIMEOUT == 5
DNS_TIMEOUT == 3

\* what a probe call hands to the handler: a dict {"status": val, ...} or a bare str
DictOutcome(st) == [kind |-> "dict", val |-> st]
StrOutcome(sv) == [kind |-> "str", val |-> sv]
NoOutcome == [kind |-> "none", val |-> "none"]

\* the values the bodies of check_whois and check_dns return
ProbeReturns == {DictOutcome("available"), DictOutcome("taken"), DictOutcome("error")}

\* the timeout the decorator was given
Timeout(probe) == IF probe = "whois" THEN WHOIS_TIMEOUT ELSE DNS_TIMEOUT

\* no call in progress; executor.submit(func, ...) followed by future.result(timeout)
NoCall == [st |-> "none", elapsed |-> 0]
Submit == [st |-> "waiting", elapsed |-> 0]

\* wrapper: result = future.result(timeout=timeout); return result
WrapperOnReturn(r) == r
\* what the operation may raise: a TimeoutError (socket.timeout and
\* concurrent.futures.TimeoutError are the same class), another Exception, or a
\* BaseException that is not an Exception (SystemExit, KeyboardInterrupt)
Raises == {"TimeoutError", "Exception", "BaseException"}
\* the exception reaches the caller of the wrapper
Propagated(exc) == [kind |-> "raised", val |-> exc]
\* wrapper: future.result re-raises the operation's exception inside the try:
\*     except concurrent.futures.TimeoutError: return "timeout"
\*     except Exception: return "error"
\* and no clause catches a BaseException
WrapperOnRaise(exc) ==
    CASE exc = "TimeoutError" -> StrOutcome("timeout")
      [] exc = "Exception" -> StrOutcome("error")
      [] OTHER -> Propagated(exc)
\* wrapper: except concurrent.futures.TimeoutError: return "timeout"
WrapperOnTimeout == StrOutcome("timeout")

\* how an operation may end after its timeout: it returns a dict or raises
LateEnds == ProbeReturns \cup {Propagated(exc) : exc \in Raises}
\* a wrapper that, once the operation has ended, hands over what it produced
WrapperOnLateEndReadsFuture(r) == r
\* the operation ends with r after future.result(timeout) has raised TimeoutError: the
\* wrapper is already in `return "timeout"' and never reads the future again
WrapperOnLateEnd(r) == WrapperOnTimeout

\* the tag of the specification's ProbeOutcome that an outcome stands for
Tag(o) ==
    CASE o.kind = "dict" /\ o.val = "taken" -> "Taken"
      [] o.kind = "dict" /\ o.val = "available" -> "Available"
      [] o.kind = "dict" /\ o.val = "error" -> "Error"
      [] o.kind = "str" /\ o.val = "timeout" -> "TimedOut"
      [] o.kind = "str" /\ o.val = "error" -> "Error"
      [] o.kind = "raised" -> "Raised"
      [] OTHER -> "None"

(***************************************************************************)
(* Fusion, verdicts and the cache: src/app/api/routes.py, src/script.py    *)
(***************************************************************************)

\* status = "taken" if whois_result.get("status") == "taken" or
\*          dns_result.get("status") == "taken" else "available"
\* (str has no get: AttributeError; `or' does not evaluate its right side after a true left)
FuseStatus(w, d) ==
    IF w.kind # "dict" THEN "AttributeError"
    ELSE IF w.val = "taken" THEN "taken"
    ELSE IF d.kind # "dict" THEN "AttributeError"
    ELSE IF d.val = "taken" THEN "taken"
    ELSE "available"

\* one entry of a response: a verdict dict or an error entry; a key the dict does not
\* have is "missing" (response_time), <<>> (tld), NoOutcome (whois, dns), "None" (error).
\* `arg' is used by the error strings of src/script.py only (see ErrorStr)
Entry(domain, status, w, d, tld, rt, cached, error) ==
    [domain |-> domain, status |-> status, whois |-> w, dns |-> d, tld |-> tld,
     response_time |-> rt, cached |-> cached, error |-> error, arg |-> <<>>]

\* the response dict of check_domain
SingleVerdict(fqdn, status, w, d, tld) ==
    Entry(fqdn, status, w, d, tld, "0.00s", FALSE, "None")

\* the result dict of one bulk item: no "response_time"
BulkVerdict(fqdn, status, w, d, tld) ==
    Entry(fqdn, status, w, d, tld, "missing", FALSE, "None")

\* app: {"domain": f"{domain}.{tld}", "status": "error", "error": error}
ErrorEntry(domain, msg) ==
    Entry(domain, "error", NoOutcome, NoOutcome, <<>>, "missing", FALSE, msg)

\* script: an error is a bare str, the text msg followed by the value arg: "Missing
\* domain name", f"Invalid TLD: {tld}" (the cleaned TLD), f"Invalid domain name: {name}"
\* (the cleaned name).  A str has no "domain" and no other key
ErrorStr(msg, arg) ==
    [Entry(<<>>, "error", NoOutcome, NoOutcome, <<>>, "missing", FALSE, msg)
        EXCEPT !.arg = arg]

IsVerdict(e) == e.status \in {"taken", "available"}

\* a full name put together without the dot
FullDomainNoDot(name, tld) == name \o tld

\* full_domain = f"{domain_name}.{tld}"
FullDomain(name, tld) == name \o <<".">> \o tld

DomainCheckPrefix == <<"d", "o", "m", "a", "i", "n", "_", "c", "h", "e", "c", "k", ":">>

\* a cache key that leaves the TLD out
CacheKeyLabelOnly(v, name, tld) == name

\* app: cache.get(full_domain); script: cache_key = f"domain_check:{domain_name}:{tld}"
CacheKey(v, name, tld) ==
    IF v = "app" THEN FullDomain(name, tld)
    ELSE DomainCheckPrefix \o name \o <<":">> \o tld

\* a cache.get that never finds the key
CacheGetMiss(c, k) == <<>>

\* cache.get(key): the stored value (a copy of it), or nothing
CacheGet(c, k) == IF k \in DOMAIN c THEN <<c[k]>> ELSE <<>>

\* a cache that keeps the entry it has (cache.add)
CachePutIfAbsent(c, k, val) ==
    [x \in (DOMAIN c) \cup {k} |-> IF x \in DOMAIN c THEN c[x] ELSE val]

\* cache.set(key, value)
CachePut(c, k, val) == [x \in (DOMAIN c) \cup {k} |-> IF x = k THEN val ELSE c[x]]

\* CACHE_DEFAULT_TIMEOUT of src/app/__init__.py, timeout=300 of src/script.py
CACHE_TIMEOUT == 300

\* set() at time t: the entry expires at t + timeout
ExpiresAt(t) == t + CACHE_TIMEOUT

\* a get() that still returns the entry at the instant it expires
LiveInclusive(e, t) == e >= t

\* get() at time t returns an entry that expires at e only while e > t
Live(e, t) == e > t

\* the entry's TTL has run out: the cache no longer returns it (and drops it)
CacheExpire(c, k) == [x \in (DOMAIN c) \ {k} |-> c[x]]

\* a cache that hands out the stored object itself: the handler's assignment changes it
CacheAfterHitAliased(c, k, e) == CachePut(c, k, e)

\* the cache after `cached_result = cache.get(k)' and the handler's assignments that made
\* cached_result the entry e: the cache of CACHE_TYPE 'simple' stores a pickle of the
\* value and get() unpickles it, so the handler changes a copy and the cache keeps its own
CacheAfterHit(c, k, e) == c

\* a check_domain that returns the stored verdict as it is, cached = False included
HitSingleUndecorated(v, e) == e

\* check_domain on a hit: cached_result['cached'] = True (script: and response_time)
HitSingle(v, e) ==
    IF v = "app" THEN [e EXCEPT !.cached = TRUE]
    ELSE [e EXCEPT !.response_time = "0.00s", !.cached = TRUE]

\* a bulk_check that appends the stored verdict as it is, cached = False included
HitBulkUndecorated(e) == e

\* bulk_check on a hit: cached_result['cached'] = True
HitBulk(e) == [e EXCEPT !.cached = TRUE]

(***************************************************************************)
(* Requests, responses and per-request bookkeeping                         *)
(***************************************************************************)
MAX_BULK == 10

Workers == {"w1", "w2"}

\* `list' tells whether the JSON body of a bulk request has a "domains" member
NoReq == [kind |-> "none", domain |-> Absent, tld |-> Absent, domains |-> <<>>, list |-> FALSE]
SingleReq(domain, tld) ==
    [kind |-> "single", domain |-> domain, tld |-> tld, domains |-> <<>>, list |-> FALSE]
\* POST /bulk with the body {"domains": domains} or {"domains": domains, "tld": tld}
BulkReq(domains, tld) ==
    [kind |-> "bulk", domain |-> Absent, tld |-> tld, domains |-> domains, list |-> TRUE]
\* POST /bulk with the body {} or {"tld": tld}: data.get("domains", []) is []
BulkReqNoList(tld) ==
    [kind |-> "bulk", domain |-> Absent, tld |-> tld, domains |-> <<>>, list |-> FALSE]

Resp(code, msg, results, errors) ==
    [code |-> code, msg |-> msg, results |-> results, errors |-> errors]
NoResp == Resp(0, "", <<>>, <<>>)
\* an exception left the handler: Flask answers 500
Resp500 == Resp(500, "AttributeError", <<>>, <<>>)

NoCur == [name |-> <<>>, tld |-> <<>>, i |-> 0]
Cur(name, tld, i) == [name |-> name, tld |-> tld, i |-> i]
NoPrev == [key |-> <<>>, status |-> "none", whois |-> NoOutcome, dns |-> NoOutcome]
EmptyAcc == [results |-> <<>>, errors |-> <<>>]
NoProbeRes == [whois |-> NoOutcome, dns |-> NoOutcome, status |-> "none"]

\* counters of what the handler did for the current request
ZeroStats == [whois |-> 0, dns |-> 0, gets |-> 0, puts |-> 0, validated |-> 0, items |-> 0]

\* the text of the raw TLD inside f"{domain}.{tld}" of an app error entry
TldText(tld) ==
    CASE tld.kind = "absent" -> COM
      [] tld.kind = "null" -> <<"N", "o", "n", "e">>
      [] OTHER -> tld.s

\* results[key] = value on a dict: replaces the value under an existing key
DictSet(results, e) ==
    IF \E n \in 1..Len(results) : results[n].domain = e.domain
    THEN [n \in 1..Len(results) |-> IF results[n].domain = e.domain THEN e ELSE results[n]]
    ELSE Append(results, e)

\* app: results.append(entry); script: results[full_domain] = entry
AddResult(v, a, e) ==
    IF v = "app" THEN [a EXCEPT !.results = Append(@, e)]
    ELSE [a EXCEPT !.results = DictSet(@, e)]

\* app: results.append({... "status": "error" ...}) with the raw item and the raw TLD;
\* script: errors.append(message), the str of the validation val
AddError(v, a, domain, tld, val) ==
    IF v = "app"
    THEN [a EXCEPT !.results =
              Append(@, ErrorEntry(domain \o <<".">> \o TldText(tld), val.error))]
    ELSE [a EXCEPT !.errors = Append(@, ErrorStr(val.error, val.arg))]

\* a bulk_check whose size check lets 11 items through
BulkPrecheckOffByOne(v, domains) ==
    IF v = "script" /\ domains = <<>> THEN "Invalid or missing domains list"
    ELSE IF Len(domains) > MAX_BULK + 1
         THEN (IF v = "app" THEN "Maximum 10 domains per request" ELSE "Too many domains")
    ELSE "None"

\* the check of the body of a bulk request that has no "domains" member: the app tests
\* `if not data or not isinstance(data, dict)', and the body {} is falsy; the script
\* tests `if not domains' on request.json.get("domains")
BulkBodyCheck(v, tld) ==
    IF v = "script" THEN "Invalid or missing domains list"
    ELSE IF tld.kind = "absent" THEN "Request body must be JSON"
    ELSE "None"

\* the checks of bulk_check on the "domains" list of the body, before its loop: "None",
\* or the message of the 400 response
BulkPrecheck(v, domains) ==
    IF v = "script" /\ domains = <<>> THEN "Invalid or missing domains list"
    ELSE IF Len(domains) > MAX_BULK
         THEN (IF v = "app" THEN "Maximum 10 domains per request" ELSE "Too many domains")
    ELSE "None"

\* the response after the loop of bulk_check
BulkResponse(v, a) ==
    IF v = "script" /\ a.results = <<>> /\ a.errors # <<>>
    THEN Resp(400, "No valid domains provided", <<>>, a.errors)
    ELSE Resp(200, "", a.results, a.errors)

RECURSIVE BulkScan(_, _, _, _, _, _, _)
\* the loop of bulk_check from item i on, up to the first item that needs the probes:
\* validation failures and cache hits are appended and the loop goes on
BulkScan(v, c, domains, tld, i, a, st) ==
    IF i > Len(domains)
    THEN [state |-> "done", i |-> i, name |-> <<>>, tld |-> <<>>, acc |-> a, stats |-> st,
          cache |-> c]
    ELSE
      LET val == ValidateBulkItem(v, domains[i], tld)
          st1 == [st EXCEPT !.validated = @ + 1]
          key == CacheKey(v, val.name, val.tld)
          hit == CacheGet(c, key)
      IN  IF val.raised
          THEN [state |-> "raised", i |-> i, name |-> <<>>, tld |-> <<>>, acc |-> a,
                stats |-> st1, cache |-> c]
          ELSE IF val.error # "None"
          THEN BulkScan(v, c, domains, tld, i + 1, AddError(v, a, domains[i], tld, val),
                        [st1 EXCEPT !.items = @ + 1])
          ELSE IF hit # <<>>
          THEN BulkScan(v, CacheAfterHit(c, key, HitBulk(hit[1])), domains, tld, i + 1,
                        AddResult(v, a, HitBulk(hit[1])),
                        [st1 EXCEPT !.gets = @ + 1, !.items = @ + 1])
          ELSE [state |-> "probe", i |-> i, name |-> val.name, tld |-> val.tld, acc |-> a,
                stats |-> [st1 EXCEPT !.gets = @ + 1], cache |-> c]

(***************************************************************************)
(* The handlers as steps of a worker                                       *)
(***************************************************************************)
MaxElapsed == 7
MaxBatch == 2

\* the worker starts check_whois: the wrapper submits the operation and waits
BeginResolution(w, name, tld, i, a, st) ==
    /\ pc' = [pc EXCEPT ![w] = "whois"]
    /\ call' = [call EXCEPT ![w] = Submit]
    /\ cur' = [cur EXCEPT ![w] = Cur(name, tld, i)]
    /\ acc' = [acc EXCEPT ![w] = a]
    /\ stats' = [stats EXCEPT ![w] = [st EXCEPT !.whois = @ + 1]]
    /\ probeRes' = [probeRes EXCEPT ![w] = NoProbeRes]
    /\ resp' = [resp EXCEPT ![w] = NoResp]
    /\ prev' = [prev EXCEPT ![w] = NoPrev]

\* the handler returns the response r
Return(w, r, a, st) ==
    /\ pc' = [pc EXCEPT ![w] = "done"]
    /\ call' = [call EXCEPT ![w] = NoCall]
    /\ acc' = [acc EXCEPT ![w] = a]
    /\ stats' = [stats EXCEPT ![w] = st]
    /\ resp' = [resp EXCEPT ![w] = r]

\* the loop of bulk_check goes on from item i with the cache c
BulkContinue(w, c, i, a, st) ==
    LET r == BulkScan(variant, c, req'[w].domains, req'[w].tld, i, a, st) IN
    /\ cache' = r.cache
    /\ UNCHANGED expires
    /\ CASE r.state = "probe" -> BeginResolution(w, r.name, r.tld, r.i, r.acc, r.stats)
      [] r.state = "raised" ->
            /\ Return(w, Resp500, r.acc, r.stats)
            /\ UNCHANGED <<cur, probeRes>>
            /\ prev' = [prev EXCEPT ![w] = NoPrev]
      [] OTHER ->
            /\ Return(w, BulkResponse(variant, r.acc), r.acc, r.stats)
            /\ UNCHANGED <<cur, probeRes>>
            /\ prev' = [prev EXCEPT ![w] = NoPrev]

\* GET /: check_domain up to its first probe
StartSingle(w, domain, tld) ==
    /\ pc[w] = "idle"
    /\ req' = [req EXCEPT ![w] = SingleReq(domain, tld)]
    /\ LET val == ValidateSingle(variant, domain, tld)
           hit == CacheGet(cache, CacheKey(variant, val.name, val.tld))
           st == [ZeroStats EXCEPT !.validated = 1]
           key == CacheKey(variant, val.name, val.tld)
       IN  IF val.error # "None"
           THEN /\ Return(w, Resp(400, val.error, <<>>, <<>>), EmptyAcc, st)
                /\ UNCHANGED <<cache, expires, cur, probeRes, prev>>
           ELSE IF hit # <<>>
           THEN /\ Return(w, Resp(200, "", <<HitSingle(variant, hit[1])>>, <<>>), EmptyAcc,
                          [st EXCEPT !.gets = 1])
                /\ cache' = CacheAfterHit(cache, key, HitSingle(variant, hit[1]))
                /\ UNCHANGED expires
                /\ cur' = [cur EXCEPT ![w] = Cur(val.name, val.tld, 0)]
                /\ UNCHANGED <<probeRes, prev>>
           ELSE /\ BeginResolution(w, val.name, val.tld, 0, EmptyAcc, [st EXCEPT !.gets = 1])
                /\ UNCHANGED <<cache, expires>>
    /\ UNCHANGED <<variant, now, vvars>>

\* POST /bulk with a body that has no "domains" member: the whole bulk_check, which
\* answers 400, or (app, a body with only a "tld") 200 with no result
StartBulkNoList(w, tld) ==
    /\ pc[w] = "idle"
    /\ req' = [req EXCEPT ![w] = BulkReqNoList(tld)]
    /\ LET pre == BulkBodyCheck(variant, tld) IN
       IF pre # "None"
       THEN /\ Return(w, Resp(400, pre, <<>>, <<>>), EmptyAcc, ZeroStats)
            /\ UNCHANGED <<cache, expires, cur, probeRes>>
            /\ prev' = [prev EXCEPT ![w] = NoPrev]
       ELSE BulkContinue(w, cache, 1, EmptyAcc, ZeroStats)
    /\ UNCHANGED <<variant, now, vvars>>

\* POST /bulk with a body that has a "domains" list (such a body is a non-empty dict, so
\* the app's `if not data' does not reject it): bulk_check up to its first probe
StartBulk(w, domains, tld) ==
    /\ pc[w] = "idle"
    /\ req' = [req EXCEPT ![w] = BulkReq(domains, tld)]
    /\ LET pre == BulkPrecheck(variant, domains) IN
       IF pre # "None"
       THEN /\ Return(w, Resp(400, pre, <<>>, <<>>), EmptyAcc, ZeroStats)
            /\ UNCHANGED <<cache, expires, cur, probeRes>>
            /\ prev' = [prev EXCEPT ![w] = NoPrev]
       ELSE BulkContinue(w, cache, 1, EmptyAcc, ZeroStats)
    /\ UNCHANGED <<variant, now, vvars>>

\* the handler after check_dns returned d: fusion, response, cache.set, return; in
\* bulk_check the loop goes on with the next item
Finish(w, d) ==
    LET wr == probeRes[w].whois
        status == FuseStatus(wr, d)
        fqdn == FullDomain(cur[w].name, cur[w].tld)
        key == CacheKey(variant, cur[w].name, cur[w].tld)
        st == [stats[w] EXCEPT !.puts = @ + 1, !.items = @ + 1]
    IN  /\ probeRes' = [probeRes EXCEPT ![w] = [whois |-> wr, dns |-> d, status |-> status]]
        /\ UNCHANGED <<req, prev>>
        /\ IF status = "AttributeError"
           THEN /\ Return(w, Resp500, acc[w], stats[w])
                /\ UNCHANGED <<cache, expires, cur>>
           ELSE IF req[w].kind = "single"
           THEN LET v == SingleVerdict(fqdn, status, wr, d, cur[w].tld) IN
                /\ cache' = CachePut(cache, key, v)
                /\ expires' = CachePut(expires, key, ExpiresAt(now))
                /\ Return(w, Resp(200, "", <<v>>, <<>>), acc[w], st)
                /\ UNCHANGED cur
           ELSE LET v == BulkVerdict(fqdn, status, wr, d, cur[w].tld)
                    c2 == CachePut(cache, key, v)
                    r == BulkScan(variant, c2, req[w].domains, req[w].tld, cur[w].i + 1,
                                  AddResult(variant, acc[w], v), st)
                IN  /\ cache' = r.cache
                    /\ expires' = CachePut(expires, key, ExpiresAt(now))
                    /\ CASE r.state = "probe" ->
                              /\ pc' = [pc EXCEPT ![w] = "whois"]
                              /\ call' = [call EXCEPT ![w] = Submit]
                              /\ cur' = [cur EXCEPT ![w] = Cur(r.name, r.tld, r.i)]
                              /\ acc' = [acc EXCEPT ![w] = r.acc]
                              /\ stats' = [stats EXCEPT ![w] = [r.stats EXCEPT !.whois = @ + 1]]
                              /\ UNCHANGED resp
                         [] r.state = "raised" ->
                              Return(w, Resp500, r.acc, r.stats) /\ UNCHANGED cur
                         [] OTHER ->
                              /\ Return(w, BulkResponse(variant, r.acc), r.acc, r.stats)
                              /\ UNCHANGED cur

\* a handler that builds its verdict from the first outcome it gets
DeliverFirstOutcome(w, o) == Finish(w, o)

\* the wrapper returned o to the handler: after check_whois the handler calls check_dns,
\* after check_dns it finishes
Deliver(w, o) ==
    IF pc[w] = "whois"
    THEN /\ probeRes' = [probeRes EXCEPT ![w] = [whois |-> o, dns |-> NoOutcome, status |-> "none"]]
         /\ pc' = [pc EXCEPT ![w] = "dns"]
         /\ call' = [call EXCEPT ![w] = Submit]
         /\ stats' = [stats EXCEPT ![w] = [@ EXCEPT !.dns = @ + 1]]
         /\ UNCHANGED <<cache, expires, req, cur, acc, resp, prev>>
    ELSE Finish(w, o)


\* the worker is inside a probe call
InCall(w) == pc[w] \in {"whois", "dns"}

\* the operation returns r while the wrapper waits in future.result(timeout): the wrapper
\* leaves the executor at once (its only thread is done) and returns r
OpReturns(w, r) ==
    /\ pc[w] \in {"whois", "dns"}
    /\ call[w].st = "waiting"
    /\ call[w].elapsed <= Timeout(pc[w])
    /\ Deliver(w, WrapperOnReturn(r))
    /\ UNCHANGED <<variant, now, vvars>>

\* future.result(timeout) raises TimeoutError: `return "timeout"' leaves the `with' block,
\* whose exit is executor.shutdown(wait=True): the wrapper now joins the operation's thread
WrapperTimeout(w) ==
    /\ pc[w] \in {"whois", "dns"}
    /\ call[w].st = "waiting"
    /\ call[w].elapsed >= Timeout(pc[w])
    /\ call' = [call EXCEPT ![w] = [@ EXCEPT !.st = "joining"]]
    /\ UNCHANGED <<variant, now, vvars, cache, expires, pc, req, cur, probeRes, acc, stats, resp, prev>>

\* the operation ends after the timeout, returning or raising r: the join ends and the
\* wrapper returns "timeout"; what the operation produced is dropped
OpFinishesLate(w, r) ==
    /\ pc[w] \in {"whois", "dns"}
    /\ call[w].st = "joining"
    /\ Deliver(w, WrapperOnLateEnd(r))
    /\ UNCHANGED <<variant, now, vvars>>

\* one second passes.  The wrapper's own steps take no time: a second cannot pass while
\* a waiting call has reached its timeout.  An operation that has not ended may take
\* any time, or never end.
Tick ==
    /\ \E w \in Workers : InCall(w)
    /\ \A w \in Workers : InCall(w) =>
          /\ call[w].elapsed < MaxElapsed
          /\ call[w].st = "joining" \/ call[w].elapsed < Timeout(pc[w])
    /\ call' = [w \in Workers |->
                  IF InCall(w) THEN [call[w] EXCEPT !.elapsed = @ + 1] ELSE call[w]]
    /\ UNCHANGED <<variant, now, vvars, cache, expires, pc, req, cur, probeRes, acc, stats, resp, prev>>

\* the TTL of the entry under k runs out
Expire(k) ==
    /\ k \in DOMAIN cache
    /\ cache' = CacheExpire(cache, k)
    /\ expires' = CacheExpire(expires, k)
    /\ prev' = [w \in Workers |-> IF prev[w].key = k THEN NoPrev ELSE prev[w]]
    /\ UNCHANGED <<variant, now, vvars, pc, req, cur, call, probeRes, acc, stats, resp>>

\* the response of a finished request is sent and the worker is free for the next
\* request; what a successful single check returned is remembered for the next one
Reply(w) ==
    /\ pc[w] = "done"
    /\ pc' = [pc EXCEPT ![w] = "idle"]
    /\ prev' = [prev EXCEPT ![w] =
                  IF req[w].kind = "single" /\ resp[w].code = 200
                  THEN [key |-> CacheKey(variant, cur[w].name, cur[w].tld),
                        status |-> resp[w].results[1].status,
                        whois |-> resp[w].results[1].whois,
                        dns |-> resp[w].results[1].dns]
                  ELSE NoPrev]
    /\ req' = [req EXCEPT ![w] = NoReq]
    /\ cur' = [cur EXCEPT ![w] = NoCur]
    /\ probeRes' = [probeRes EXCEPT ![w] = NoProbeRes]
    /\ acc' = [acc EXCEPT ![w] = EmptyAcc]
    /\ stats' = [stats EXCEPT ![w] = ZeroStats]
    /\ resp' = [resp EXCEPT ![w] = NoResp]
    /\ UNCHANGED <<variant, now, vvars, cache, expires, call>>

(***************************************************************************)
(* The service (Spec): one worker serves single and bulk requests, one     *)
(* after the other                                                         *)
(***************************************************************************)
SingleDomains == {Str(<<"a", "b">>), Str(<<"i", "@">>), Absent}
SingleTlds == {Absent, Str(<<"i", "o">>), Str(<<"1">>)}
BulkItems == {<<"a", "b">>, <<"-", "a">>}
\* every short batch, a batch of exactly 10 items and a batch of 11
Batches ==
    SeqsUpTo(BulkItems, MaxBatch)
    \cup {Rep(<<"-", "a">>, MAX_BULK), Rep(<<"a", "b">>, MAX_BULK + 1)}
BulkTlds == {Absent}

SeqWorkers == {"w1"}

\* the validator harness is not running
VOff == vpc = "off" /\ vLabel = <<>> /\ vTld = Absent /\ vOut = Rejected("")

\* the service after start-up: an empty cache, idle workers
SysInit ==
    /\ cache = <<>>
    /\ pc = [w \in Workers |-> "idle"]
    /\ req = [w \in Workers |-> NoReq]
    /\ cur = [w \in Workers |-> NoCur]
    /\ call = [w \in Workers |-> NoCall]
    /\ probeRes = [w \in Workers |-> NoProbeRes]
    /\ acc = [w \in Workers |-> EmptyAcc]
    /\ stats = [w \in Workers |-> ZeroStats]
    /\ resp = [w \in Workers |-> NoResp]
    /\ prev = [w \in Workers |-> NoPrev]
    /\ now = 0
    /\ expires = <<>>

Init == variant \in Variants /\ VOff /\ SysInit

\* the "tld" of the bulk bodies that have no "domains" member: {} and {"tld": "io"}
NoListTlds == {Absent, Str(<<"i", "o">>)}

Next ==
    \/ \E w \in SeqWorkers, d \in SingleDomains, t \in SingleTlds : StartSingle(w, d, t)
    \/ \E w \in SeqWorkers, ds \in Batches, t \in BulkTlds : StartBulk(w, ds, t)
    \/ \E w \in SeqWorkers, t \in NoListTlds : StartBulkNoList(w, t)
    \/ \E w \in SeqWorkers, r \in ProbeReturns : OpReturns(w, r)
    \/ \E w \in SeqWorkers : WrapperTimeout(w)
    \/ \E w \in SeqWorkers, r \in LateEnds : OpFinishesLate(w, r)
    \/ Tick
    \/ \E k \in DOMAIN cache : Expire(k)
    \/ \E w \in SeqWorkers : Reply(w)

Spec == Init /\ [][Next]_vars

(***************************************************************************)
(* Validator harness (SpecV): the inputs are drawn from bounded sets of    *)
(* raw strings and one validation is applied to them.                      *)
(***************************************************************************)
MaxLabelLen == 3
MaxTldLen == 4

LabelAlphabet == {"a", "A", "0", "-", ".", " ", "@"}
TldAlphabet == {"a", "A", "0", ".", " ", "@"}

\* labels around the length limit: 62..65 letters, and 63 characters with a hyphen
LongLabels ==
    {Rep("a", n) : n \in (MAX_LABEL_LEN - 1)..(MAX_LABEL_LEN + 2)}
    \cup {<<"a", "-">> \o Rep("0", MAX_LABEL_LEN - 2),
          <<"a", "-", "-">> \o Rep("0", MAX_LABEL_LEN - 3),
          Rep("a", MAX_LABEL_LEN - 1) \o <<"-">>}

AllLabels == SeqsUpTo(LabelAlphabet, MaxLabelLen) \cup LongLabels
FewLabels == {<<"a", "b">>, <<"a">>, <<"-", "a">>, <<"i", "@">>, <<>>, <<" ">>}

AllTlds == {Absent, Null} \cup {Str(s) : s \in SeqsUpTo(TldAlphabet, MaxTldLen)}
FewTlds == {Absent, Null, Str(COM), Str(<<"i", "o">>), Str(<<>>), Str(<<"1", "0">>),
            Str(<<"c", "o", ".", "i", "o">>), Str(<<"c", "o", "m", ".">>)}

VInit ==
    /\ variant \in Variants
    /\ vpc = "input"
    /\ \/ vLabel \in AllLabels /\ vTld \in FewTlds
       \/ vLabel \in FewLabels /\ vTld \in AllTlds
    /\ vOut = Rejected("")
    /\ SysInit

\* a direct call clean_domain_input(domain_name, tld)
VClean ==
    /\ vpc = "input"
    /\ vTld.kind # "absent"
    /\ vOut' = clean_domain_input(variant, vLabel, vTld)
    /\ vpc' = "clean"
    /\ UNCHANGED <<variant, vLabel, vTld, svars>>

\* the validation of GET /?domain=...&tld=...
VSingle ==
    /\ vpc = "input"
    /\ vTld.kind # "null"
    /\ vOut' = ValidateSingle(variant, Str(vLabel), vTld)
    /\ vpc' = "single"
    /\ UNCHANGED <<variant, vLabel, vTld, svars>>

\* the validation of one item of POST /bulk
VBulkItem ==
    /\ vpc = "input"
    /\ vOut' = ValidateBulkItem(variant, vLabel, vTld)
    /\ vpc' = "bulk"
    /\ UNCHANGED <<variant, vLabel, vTld, svars>>

VNext == VClean \/ VSingle \/ VBulkItem

SpecV == VInit /\ [][VNext]_vars
(***************************************************************************)
(* The service under concurrent requests (SpecC): two worker threads of    *)
(* one process, sharing the cache, serve single checks of the same name at *)
(* the same time.                                                          *)
(***************************************************************************)
ConcDomains == {Str(<<"a", "b">>)}
ConcTlds == {Absent}

CNext ==
    \/ \E w \in Workers, d \in ConcDomains, t \in ConcTlds : StartSingle(w, d, t)
    \/ \E w \in Workers, r \in ProbeReturns : OpReturns(w, r)
    \/ \E w \in Workers : WrapperTimeout(w)
    \/ \E w \in Workers, r \in LateEnds : OpFinishesLate(w, r)
    \/ Tick
    \/ \E w \in Workers : Reply(w)

\* no entry expires in these behaviours: two resolutions that both miss overlap in time
SpecC == Init /\ [][CNext]_vars

(***************************************************************************)
(* The service over the lifetime of cache entries (SpecT): one worker      *)
(* serves single and bulk checks; between two requests the clock moves by  *)
(* just under, exactly, or just over the TTL.  The probes answer within    *)
(* the second in which they are called.                                    *)
(***************************************************************************)
MaxNow == 602

TtlDomains == {Str(<<"a", "b">>)}
TtlTlds == {Absent, Str(<<"i", "o">>)}
TtlBatches == {<<<<"a", "b">>>>}
Jumps == {CACHE_TIMEOUT - 1, CACHE_TIMEOUT, CACHE_TIMEOUT + 1}

\* d seconds pass while no request is being served.  `cache' holds the entries get()
\* returns: an entry whose expiry time has been reached is no longer among them (its
\* expiry time stays on record until the key is stored again)
TimePasses(d) ==
    /\ \A w \in Workers : pc[w] = "idle"
    /\ now + d <= MaxNow
    /\ now' = now + d
    /\ cache' = [k \in {x \in DOMAIN cache : Live(expires[x], now')} |-> cache[k]]
    /\ prev' = [w \in Workers |->
                  IF prev[w] # NoPrev /\ ~Live(expires[prev[w].key], now') THEN NoPrev
                  ELSE prev[w]]
    /\ UNCHANGED <<variant, vvars, expires, pc, req, cur, call, probeRes, acc, stats, resp>>

TNext ==
    \/ \E w \in SeqWorkers, d \in TtlDomains, t \in TtlTlds : StartSingle(w, d, t)
    \/ \E w \in SeqWorkers, ds \in TtlBatches, t \in BulkTlds : StartBulk(w, ds, t)
    \/ \E w \in SeqWorkers, r \in ProbeReturns : OpReturns(w, r)
    \/ \E w \in SeqWorkers : Reply(w)
    \/ \E d \in Jumps : TimePasses(d)

SpecT == Init /\ [][TNext]_vars

(***************************************************************************)
(* Wrapper harness (SpecW): two threads call functions decorated with      *)
(* with_timeout(5) and with_timeout(3) directly.  The decorated function   *)
(* is any function: it may return a dict, raise, or not end.               *)
(***************************************************************************)
\* the thread w calls a function decorated with the timeout of `probe'
WCall(w, probe) ==
    /\ pc[w] = "idle"
    /\ pc' = [pc EXCEPT ![w] = probe]
    /\ call' = [call EXCEPT ![w] = Submit]
    /\ UNCHANGED <<variant, now, vvars, cache, expires, req, cur, probeRes, acc, stats, resp, prev>>

\* the wrapper returns o to the thread w; `how' records how the operation ended
WReturn(w, o, how) ==
    /\ probeRes' = [probeRes EXCEPT ![w] =
                      IF pc[w] = "whois" THEN [whois |-> o, dns |-> NoOutcome, status |-> "none"]
                      ELSE [whois |-> NoOutcome, dns |-> o, status |-> "none"]]
    /\ pc' = [pc EXCEPT ![w] = "done"]
    /\ call' = [call EXCEPT ![w] = [@ EXCEPT !.st = how]]
    /\ UNCHANGED <<variant, now, vvars, cache, expires, req, cur, acc, stats, resp, prev>>

\* result = future.result(timeout=timeout) returns r; return result
WOpReturns(w, r) ==
    /\ InCall(w)
    /\ call[w].st = "waiting"
    /\ call[w].elapsed <= Timeout(pc[w])
    /\ WReturn(w, WrapperOnReturn(r), "returned")

\* the operation raises exc before the timeout: future.result(timeout=timeout) re-raises
\* it at once, and the except clauses of the wrapper decide what the caller gets
WOpRaises(w, exc) ==
    /\ InCall(w)
    /\ call[w].st = "waiting"
    /\ call[w].elapsed <= Timeout(pc[w])
    /\ WReturn(w, WrapperOnRaise(exc), "raised")

\* the operation ends after the timeout, returning or raising r: the join of the
\* executor ends and the wrapper returns "timeout"
WOpFinishesLate(w, r) ==
    /\ InCall(w)
    /\ call[w].st = "joining"
    /\ WReturn(w, WrapperOnLateEnd(r), "late")

\* what the wrapper returned to the thread w
WResult(w) == IF probeRes[w].whois # NoOutcome THEN probeRes[w].whois ELSE probeRes[w].dns

WNext ==
    \/ \E w \in Workers, probe \in {"whois", "dns"} : WCall(w, probe)
    \/ \E w \in Workers, r \in ProbeReturns : WOpReturns(w, r)
    \/ \E w \in Workers, exc \in Raises : WOpRaises(w, exc)
    \/ \E w \in Workers : WrapperTimeout(w)
    \/ \E w \in Workers, r \in LateEnds : WOpFinishesLate(w, r)
    \/ Tick

SpecW == Init /\ [][WNext]_vars

(***************************************************************************)
(* The service under spellings of the same name (SpecK): one worker serves *)
(* single checks and one-item bulk checks whose raw label and raw TLD are  *)
(* written in different cases, with surrounding whitespace and with a      *)
(* leading dot.  The probes answer in time: the WHOIS lookup finds no      *)
(* record, the DNS lookup finds an address or none.                        *)
(***************************************************************************)
KeyLabels == {<<"a", "b">>, <<" ", "A", "b", " ">>, <<"b", "a">>}
KeyTlds == {Absent, Str(<<".", "C", "O", "M">>), Str(<<" ", ".", "I", "o", " ">>)}
KeyBatches == {<<l>> : l \in KeyLabels}
KeyReturns == {DictOutcome("taken"), DictOutcome("available")}

KNext ==
    \/ \E w \in SeqWorkers, l \in KeyLabels, t \in KeyTlds : StartSingle(w, Str(l), t)
    \/ \E w \in SeqWorkers, ds \in KeyBatches, t \in KeyTlds : StartBulk(w, ds, t)
    \/ \E w \in SeqWorkers : pc[w] = "whois" /\ OpReturns(w, DictOutcome("available"))
    \/ \E w \in SeqWorkers, r \in KeyReturns : pc[w] = "dns" /\ OpReturns(w, r)
    \/ \E k \in DOMAIN cache : Expire(k)
    \/ \E w \in SeqWorkers : Reply(w)

SpecK == Init /\ [][KNext]_vars

(***************************************************************************)
(* Validator claims (checked under SpecV)                                  *)
(***************************************************************************)
\* the label as the Validator normalizes it: trimmed and lowercased
NormLabel == Lower(Strip(vLabel))

\* the grammar of claim C8: the regular expression, at most 63 characters, no "--"
LabelGrammar(d) ==
    /\ MatchLabelRegex(d)
    /\ Len(d) <= MAX_LABEL_LEN
    /\ ~Contains2(d, "-", "-")

\* the grammar of the specification's section 4.1: 1 to 63 characters of [a-z0-9-],
\* alphanumeric at both ends, no two consecutive hyphens
SpecLabelGrammar(d) ==
    /\ Len(d) \in 1..MAX_LABEL_LEN
    /\ \A i \in 1..Len(d) : d[i] \in AlNum \cup {"-"}
    /\ d[1] \in AlNum /\ d[Len(d)] \in AlNum
    /\ ~Contains2(d, "-", "-")

\* a TLD that is no obstacle to the label: absent, or well formed once cleaned
TldWellFormed ==
    \/ vTld.kind = "absent"
    \/ vTld.kind = "str" /\ MatchTldRegex(Lower(LStripDots(Strip(vTld.s))))

\* C8: a non-empty normalized label is accepted by is_valid_domain_name exactly when it
\* matches ^[a-z0-9][a-z0-9-]*[a-z0-9]$, has at most 63 characters and no "--"; with a
\* well-formed TLD the validation accepts exactly those labels and rejects the others
\* with InvalidDomainFormat; whatever the TLD, a label outside the grammar is rejected.
C8_LabelValidation ==
    (vpc # "input" /\ NormLabel # <<>>) =>
        /\ is_valid_domain_name(NormLabel) <=> LabelGrammar(NormLabel)
        /\ TldWellFormed =>
              /\ vOut.error = "None" <=> LabelGrammar(NormLabel)
              /\ ~LabelGrammar(NormLabel) => IsInvalidDomainFormat(vOut.error)
        /\ ~LabelGrammar(NormLabel) => vOut.error # "None"

\* C8 witness: a 63-character label with a hyphen went through the single check and was
\* accepted
C8_Witness ==
    /\ vpc = "single"
    /\ vLabel = <<"a", "-">> \o Rep("0", MAX_LABEL_LEN - 2)
    /\ vOut.error = "None"
    /\ vOut.name = vLabel

\* C9: every label of 1 to 63 characters of [a-z0-9-] that starts and ends with an
\* alphanumeric character and has no "--" is accepted (with a well-formed TLD); in
\* particular a one-character label is.
C9_LabelLengthRange ==
    (vpc # "input" /\ SpecLabelGrammar(NormLabel) /\ TldWellFormed) => vOut.error = "None"

\* the TLD as claim C10 normalizes it: trimmed, lowercased, one leading dot stripped
StripOneDot(t) == IF t # <<>> /\ Head(t) = "." THEN Tail(t) ELSE t
ClaimNormTld == StripOneDot(Lower(Strip(vTld.s)))

\* C10: with a valid label, a TLD given as a string is accepted exactly when, trimmed,
\* lowercased and stripped of one leading dot, it matches ^[a-z]{2,}$; every other TLD is
\* rejected with InvalidTldFormat.
C10_TldValidation ==
    (vpc # "input" /\ vTld.kind = "str" /\ LabelGrammar(NormLabel)) =>
        /\ vOut.error = "None" <=> MatchTldRegex(ClaimNormTld)
        /\ ~MatchTldRegex(ClaimNormTld) => IsInvalidTldFormat(vOut.error)
\* the raw TLD is absent, or empty once whitespace and the leading dot are trimmed
TldAbsentOrEmpty ==
    \/ vTld.kind = "absent"
    \/ vTld.kind = "str" /\ StripOneDot(Strip(vTld.s)) = <<>>

\* C11: with a valid label, a TLD that is absent or empty after trimming is replaced by
\* "com": the validation accepts and hands on the TLD "com", in the single check and in
\* a bulk item.
C11_TldDefault ==
    (vpc # "input" /\ LabelGrammar(NormLabel) /\ TldAbsentOrEmpty) =>
        /\ vOut.error = "None"
        /\ vOut.tld = COM

\* C21: a label that is empty, or empty once its whitespace is trimmed, is rejected
\* with MissingDomain and not with InvalidDomainFormat, by the validation of the single
\* check, by that of a bulk item and by clean_domain_input itself, whatever the TLD.
C21_MissingDomain ==
    (vpc # "input" /\ Strip(vLabel) = <<>>) =>
        /\ vOut.raised = FALSE
        /\ IsMissingDomain(vOut.error)
        /\ ~IsInvalidDomainFormat(vOut.error)

(***************************************************************************)
(* Service claims (checked under Spec)                                     *)
(***************************************************************************)
\* the resolution of worker w has reached its fusion step
Fused(w) == probeRes[w].status # "none"

\* C1: whatever the two probe outcomes (Available, Taken, Error, TimedOut), the status
\* computed by check_domain and by each bulk item is Taken when at least one outcome is
\* Taken, and Available otherwise.
C1_FusionRule ==
    \A w \in Workers : Fused(w) =>
        probeRes[w].status =
            IF "Taken" \in {Tag(probeRes[w].whois), Tag(probeRes[w].dns)}
            THEN "taken" ELSE "available"

\* C2: a single check that missed the cache and ran its probes returns a verdict with a
\* status, whatever the probes did: the handler never ends in an exception.
C2_ResolveNeverRaises ==
    \A w \in Workers :
        (pc[w] = "done" /\ req[w].kind = "single" /\ stats[w].whois > 0) =>
            /\ resp[w].code = 200
            /\ resp[w].results[1].status \in {"taken", "available"}

\* C3: a probe call is over, for its caller, at the latest one second after its timeout
\* (5 s for WHOIS, 3 s for DNS), also when the operation has not ended.
C3_DeadlineEnforced ==
    \A w \in Workers : InCall(w) => call[w].elapsed <= Timeout(pc[w]) + 1

\* C4: a bulk request within the size limit is never aborted: it ends with a response
\* that is not an exception, and every item of the batch got its verdict or its error.
C4_BatchIsolation ==
    \A w \in Workers :
        (pc[w] = "done" /\ req[w].kind = "bulk"
            /\ BulkPrecheck(variant, req[w].domains) = "None") =>
            /\ resp[w].code # 500
            /\ stats[w].items = Len(req[w].domains)

\* the canonical cache key of the single check worker w served
ReqKey(w) == CacheKey(variant, cur[w].name, cur[w].tld)

\* C5: when a worker's previous request was a successful single check of a key, and its
\* cache entry has not expired since, the next successful single check of that key
\* returns the same status, whois and dns, and cached = true.
C5_CacheIdempotence ==
    \A w \in Workers :
        (pc[w] = "done" /\ req[w].kind = "single" /\ resp[w].code = 200
            /\ prev[w] # NoPrev /\ prev[w].key = ReqKey(w)) =>
            /\ resp[w].results[1].status = prev[w].status
            /\ resp[w].results[1].whois = prev[w].whois
            /\ resp[w].results[1].dns = prev[w].dns
            /\ resp[w].results[1].cached = TRUE

\* C5 witness: the second of two single checks of a key was answered from the cache,
\* with a verdict that holds a WHOIS "taken" and the DNS wrapper's "timeout"
C5_Witness ==
    /\ pc["w1"] = "done" /\ req["w1"].kind = "single" /\ resp["w1"].code = 200
    /\ prev["w1"].key = ReqKey("w1")
    /\ resp["w1"].results[1].cached
    /\ resp["w1"].results[1].status = "taken"
    /\ resp["w1"].results[1].dns = StrOutcome("timeout")

\* the raw label or the raw TLD of a single check is outside its grammar
RequestInvalid(r) ==
    \/ ~LabelGrammar(Lower(Strip(ArgsGet(r.domain, <<>>))))
    \/ r.tld.kind = "str" /\ ~MatchTldRegex(Lower(LStripDots(Strip(r.tld.s))))

\* a worker answers a single check with 400 in this step
RejectsSingle(w) ==
    /\ pc[w] = "idle" /\ pc'[w] = "done"
    /\ req'[w].kind = "single" /\ resp'[w].code = 400

\* C6: a single check whose label or TLD is invalid is answered 400 with a reason; it
\* never reaches a probe, writes nothing to the cache, and leaves the cache as it was.
C6_RejectedSingleCheck ==
    /\ [](\A w \in Workers :
            (req[w].kind = "single" /\ RequestInvalid(req[w])) =>
                /\ pc[w] = "done"
                /\ resp[w].code = 400
                /\ \/ IsMissingDomain(resp[w].msg)
                   \/ IsInvalidDomainFormat(resp[w].msg)
                   \/ IsInvalidTldFormat(resp[w].msg)
                /\ stats[w].whois = 0 /\ stats[w].dns = 0 /\ stats[w].puts = 0)
    /\ [][\A w \in Workers : RejectsSingle(w) => cache' = cache]_vars

\* C6 witness: a single check with an invalid label was answered 400 while the cache
\* held an entry
C6_Witness ==
    /\ pc["w1"] = "done" /\ req["w1"].kind = "single"
    /\ req["w1"].domain = Str(<<"i", "@">>)
    /\ resp["w1"].code = 400 /\ IsInvalidDomainFormat(resp["w1"].msg)
    /\ DOMAIN cache # {}

\* the message of the TooManyItems rejection
IsTooManyItems(msg) == msg \in {"Maximum 10 domains per request", "Too many domains"}

\* C7: a bulk request of more than 10 items is answered 400 (TooManyItems) before any
\* item is processed: nothing was validated, no probe ran, the cache was neither read
\* nor written.
C7_TooManyItems ==
    \A w \in Workers :
        (req[w].kind = "bulk" /\ Len(req[w].domains) > MAX_BULK) =>
            /\ pc[w] = "done"
            /\ resp[w].code = 400 /\ IsTooManyItems(resp[w].msg)
            /\ resp[w].results = <<>> /\ resp[w].errors = <<>>
            /\ stats[w] = ZeroStats

\* C7 witness: a batch of 11 items was rejected while the cache held an entry
C7_Witness ==
    /\ pc["w1"] = "done" /\ req["w1"].kind = "bulk"
    /\ Len(req["w1"].domains) = MAX_BULK + 1
    /\ resp["w1"].code = 400 /\ IsTooManyItems(resp["w1"].msg)
    /\ DOMAIN cache # {}

\* the entries of a bulk response that are verdicts, and those that are errors (the
\* app puts both in "results"; the script has "results" and "errors" or "details")
Verdicts(r) == SelectSeq(r.results \o r.errors, IsVerdict)
Errors(r) == SelectSeq(r.results \o r.errors, LAMBDA e : ~IsVerdict(e))

\* the positions of a batch whose item fails validation
Malformed(rq) ==
    {k \in 1..Len(rq.domains) : ValidateBulkItem(variant, rq.domains[k], rq.tld).error # "None"}

\* the error e refers to the raw item: the "domain" of an app error entry starts with
\* the item; an error str of the script carries the item's cleaned name, or nothing of it
RefersTo(e, item) ==
    \/ /\ Len(e.domain) >= Len(item)
       /\ Len(item) > 0
       /\ SubSeq(e.domain, 1, Len(item)) = item
    \/ /\ IsInvalidDomainFormat(e.error)
       /\ e.arg # <<>>
       /\ e.arg = Lower(Strip(item))

\* C12: a bulk request of N items within the limit answers with as many verdicts plus
\* errors as it has items; when exactly one item k is malformed it answers with N-1
\* verdicts and one error, and that error names item k.
C12_BatchAccounting ==
    \A w \in Workers :
        (pc[w] = "done" /\ req[w].kind = "bulk"
            /\ BulkPrecheck(variant, req[w].domains) = "None") =>
            /\ Len(Verdicts(resp[w])) + Len(Errors(resp[w])) = Len(req[w].domains)
            /\ \A k \in 1..Len(req[w].domains) :
                  Malformed(req[w]) = {k} =>
                      /\ Len(Verdicts(resp[w])) = Len(req[w].domains) - 1
                      /\ Len(Errors(resp[w])) = 1
                      /\ RefersTo(Errors(resp[w])[1], req[w].domains[k])

\* the message of the NoValidItems rejection
IsNoValidItems(msg) == msg = "No valid domains provided"

\* C13: a bulk request within the limit whose response holds no verdict and at least one
\* error is answered 400 (NoValidItems); one whose response holds a verdict is answered
\* 200.
C13_NoValidItems ==
    \A w \in Workers :
        (pc[w] = "done" /\ req[w].kind = "bulk"
            /\ BulkPrecheck(variant, req[w].domains) = "None") =>
            /\ (Verdicts(resp[w]) = <<>> /\ Errors(resp[w]) # <<>>) =>
                  (resp[w].code = 400 /\ IsNoValidItems(resp[w].msg))
            /\ Verdicts(resp[w]) # <<>> => resp[w].code = 200

\* the resolution of worker w has called check_whois and has not yet called check_dns
DnsNotStarted(w) == pc[w] = "whois"

\* C14: the DNS probe of a resolution is started together with its WHOIS probe: no time
\* passes in a resolution whose WHOIS probe is in progress and whose DNS probe has not
\* been started.
C14_ConcurrentProbes ==
    \A w \in Workers : DnsNotStarted(w) => call[w].elapsed = 0

\* the larger of the two probe timeouts
MaxTimeout == IF WHOIS_TIMEOUT > DNS_TIMEOUT THEN WHOIS_TIMEOUT ELSE DNS_TIMEOUT

\* seconds that have passed, at least, since the resolution of worker w called its first
\* probe: those of the call in progress, and the WHOIS timeout when the WHOIS call ended
\* in a timeout
ResolutionTime(w) ==
    call[w].elapsed
    + (IF pc[w] = "dns" /\ probeRes[w].whois = WrapperOnTimeout THEN WHOIS_TIMEOUT ELSE 0)

\* C15: a single check that missed the cache has returned at the latest one second after
\* the larger of the two timeouts, max(5, 3) = 5: it is never found inside a probe call
\* later than that, also when the operations never return.
C15_BoundedResponse ==
    \A w \in Workers :
        (InCall(w) /\ req[w].kind = "single") => ResolutionTime(w) <= MaxTimeout + 1

\* worker w answered a single check from the cache
SingleHit(w) ==
    /\ pc[w] = "done" /\ req[w].kind = "single" /\ resp[w].code = 200
    /\ stats[w].whois = 0

\* the entry e is the stored entry st with the decoration of a hit
DecorationOf(e, st) ==
    /\ e.cached = TRUE
    /\ [e EXCEPT !.cached = FALSE, !.response_time = st.response_time] = st

\* C17: every entry the cache holds has cached = false; a single check answered from
\* the cache returns the stored entry with cached = true (and its own response_time)
\* while the cache still holds the entry as it was; and in every step an entry the
\* cache keeps is changed only by a resolution that stores its verdict (a step out of
\* check_dns), never by a hit.
C17_GetDecoratesCopy ==
    /\ [](\A k \in DOMAIN cache : cache[k].cached = FALSE /\ IsVerdict(cache[k]))
    /\ [][/\ \A w \in Workers :
              (pc[w] = "idle" /\ SingleHit(w)') =>
                  /\ cache' = cache
                  /\ ReqKey(w)' \in DOMAIN cache
                  /\ DecorationOf(resp'[w].results[1], cache[ReqKey(w)'])
          /\ \A k \in (DOMAIN cache) \cap (DOMAIN cache') :
              cache'[k] # cache[k] => \E w \in Workers : pc[w] = "dns" /\ pc'[w] # "dns"]_vars

\* C17 witness: a key was checked successfully, the worker's next request checked it
\* again and was answered from the cache with cached = true, and the cache still holds
\* the entry with cached = false
C17_Witness ==
    /\ SingleHit("w1")
    /\ prev["w1"].key = ReqKey("w1")
    /\ resp["w1"].results[1].cached = TRUE
    /\ ReqKey("w1") \in DOMAIN cache
    /\ cache[ReqKey("w1")].cached = FALSE

\* the entry has all seven fields of a single-check response
HasSevenFields(e) ==
    /\ e.domain # <<>> /\ e.tld # <<>>
    /\ e.status \in {"taken", "available"}
    /\ e.whois # NoOutcome /\ e.dns # NoOutcome
    /\ e.response_time # "missing"
    /\ e.cached \in BOOLEAN

\* C20: every single check answered 200, fresh or from the cache, after any earlier
\* single and bulk checks, carries domain, status, whois, dns, tld, response_time and
\* cached.
C20_ResponseShape ==
    \A w \in Workers :
        (pc[w] = "done" /\ req[w].kind = "single" /\ resp[w].code = 200) =>
            HasSevenFields(resp[w].results[1])

(***************************************************************************)
(* Concurrency claims (checked under SpecC)                                *)
(***************************************************************************)
\* e is one whole verdict of a single check: its status is the fusion of its own whois
\* and dns fields, and no field is missing
CompleteVerdict(e) ==
    /\ IsVerdict(e)
    /\ e.whois # NoOutcome /\ e.dns # NoOutcome
    /\ e.status = FuseStatus(e.whois, e.dns)
    /\ e.domain = FullDomain(<<"a", "b">>, e.tld)
    /\ e.cached = FALSE /\ e.error = "None" /\ e.response_time # "missing"

\* worker w ends a resolution with a verdict in this step
StoresVerdict(w) ==
    /\ pc[w] = "dns" /\ pc'[w] = "done"
    /\ resp'[w].code = 200

\* C18: with two resolutions of the same key in progress at the same time, every entry
\* of the cache is one whole verdict; the step in which a resolution ends with its
\* verdict leaves exactly that verdict under the key, whatever was there (the last Put
\* wins); and no other step changes the cache.
C18_CacheUnderConcurrency ==
    /\ [](\A k \in DOMAIN cache : CompleteVerdict(cache[k]))
    /\ [][/\ \A w \in Workers :
              StoresVerdict(w) =>
                  /\ DOMAIN cache' = (DOMAIN cache) \cup {ReqKey(w)'}
                  /\ cache'[ReqKey(w)'] = resp'[w].results[1]
                  /\ \A k \in (DOMAIN cache) \ {ReqKey(w)'} : cache'[k] = cache[k]
          /\ cache' # cache => \E w \in Workers : StoresVerdict(w)]_vars

\* C18 witness: both workers missed the cache for the same key, their resolutions ended
\* with different verdicts, and the cache holds the verdict of the second worker
C18_Witness ==
    /\ pc["w1"] = "done" /\ pc["w2"] = "done"
    /\ resp["w1"].code = 200 /\ resp["w2"].code = 200
    /\ stats["w1"].puts = 1 /\ stats["w2"].puts = 1
    /\ ReqKey("w1") = ReqKey("w2")
    /\ resp["w1"].results[1].status # resp["w2"].results[1].status
    /\ cache[ReqKey("w2")] = resp["w2"].results[1]

(***************************************************************************)
(* TTL claims (checked under SpecT)                                        *)
(***************************************************************************)
\* the time at which the entry under k was stored
StoredAt(k) == expires[k] - CACHE_TIMEOUT

\* worker w takes up a single check that passes validation in this step
TakesUpValidSingle(w) ==
    /\ pc[w] = "idle" /\ pc'[w] # "idle"
    /\ req'[w].kind = "single" /\ resp'[w].code # 400

\* C19: an entry that was stored is returned by the cache exactly while less than 300
\* seconds have passed since it was stored; a single check of a key whose entry is that
\* young is answered from the cache, any other valid single check runs the probes; and
\* the resolution that ends with a verdict stores it with a new expiry time, now + 300.
C19_TtlExpiry ==
    /\ [](/\ DOMAIN cache \subseteq DOMAIN expires
          /\ \A k \in DOMAIN expires :
                k \in DOMAIN cache <=> now - StoredAt(k) < CACHE_TIMEOUT)
    /\ [][\A w \in Workers :
              /\ TakesUpValidSingle(w) =>
                    IF ReqKey(w)' \in DOMAIN expires /\ now < expires[ReqKey(w)']
                    THEN SingleHit(w)' /\ cache' = cache /\ expires' = expires
                    ELSE pc'[w] = "whois" /\ stats'[w].whois = 1
              /\ (StoresVerdict(w) /\ req[w].kind = "single") =>
                    /\ cache'[ReqKey(w)] = resp'[w].results[1]
                    /\ expires'[ReqKey(w)] = now + CACHE_TIMEOUT]_vars

\* C19 witness: a single check arrives at the very second at which the entry of its key
\* expires (now = expiresAt): it is not answered from the cache, its WHOIS probe runs
C19_Witness ==
    /\ pc["w1"] = "whois" /\ req["w1"].kind = "single"
    /\ ReqKey("w1") \in DOMAIN expires
    /\ expires[ReqKey("w1")] = now
    /\ ReqKey("w1") \notin DOMAIN cache

(***************************************************************************)
(* Claims about one resolution (checked under Spec)                        *)
(***************************************************************************)
\* C22: a resolution invokes each probe once.  At every moment a request has called
\* check_whois once for every verdict it stored, plus once for the resolution in
\* progress or the one that ended in an exception, and check_dns likewise; a single
\* check calls each probe at most once, whatever the outcomes (Error and TimedOut
\* included); a valid single check whose key is in the cache calls neither probe, and
\* one whose key is not calls check_whois, once.
C22_SingleAttempt ==
    /\ [](\A w \in Workers :
            /\ stats[w].whois =
                  stats[w].puts + (IF InCall(w) \/ resp[w].code = 500 THEN 1 ELSE 0)
            /\ stats[w].dns =
                  stats[w].puts + (IF pc[w] = "dns" \/ resp[w].code = 500 THEN 1 ELSE 0)
            /\ req[w].kind = "single" => stats[w].whois <= 1 /\ stats[w].dns <= 1)
    /\ [][\A w \in Workers :
              TakesUpValidSingle(w) =>
                  IF ReqKey(w)' \in DOMAIN cache
                  THEN /\ SingleHit(w)'
                       /\ stats'[w].whois = 0 /\ stats'[w].dns = 0
                  ELSE /\ pc'[w] = "whois"
                       /\ stats'[w].whois = 1 /\ stats'[w].dns = 0]_vars

\* C22 witness: a single check missed the cache, its WHOIS probe returned an error and
\* its DNS probe timed out, and each probe was called once
C22_Witness ==
    /\ pc["w1"] = "done" /\ req["w1"].kind = "single"
    /\ probeRes["w1"].whois = DictOutcome("error")
    /\ probeRes["w1"].dns = StrOutcome("timeout")
    /\ stats["w1"].whois = 1 /\ stats["w1"].dns = 1

\* the handler of worker w computes a status in this step
ComputesStatus(w) == probeRes'[w].status # "none" /\ probeRes'[w] # probeRes[w]

\* C23: the status of a resolution is computed, and its verdict stored, only in the
\* step in which check_dns returns, after check_whois has returned: while check_dns is
\* pending the handler holds the WHOIS outcome and no status; the step that computes
\* the status keeps that WHOIS outcome and adds the DNS outcome; every entry that a step
\* stores or replaces is the verdict of such a step, made of both outcomes.
C23_JoinBeforeFusion ==
    /\ [](\A w \in Workers :
            /\ pc[w] = "dns" =>
                  /\ probeRes[w].whois # NoOutcome
                  /\ probeRes[w].dns = NoOutcome
                  /\ probeRes[w].status = "none"
            /\ (pc[w] = "whois" /\ req[w].kind = "single") => probeRes[w] = NoProbeRes)
    /\ [](\A k \in DOMAIN cache : cache[k].whois # NoOutcome /\ cache[k].dns # NoOutcome)
    /\ [][/\ \A w \in Workers :
              ComputesStatus(w) =>
                  /\ pc[w] = "dns"
                  /\ probeRes'[w].whois = probeRes[w].whois
                  /\ probeRes'[w].dns # NoOutcome
          /\ \A k \in DOMAIN cache' :
              (k \notin DOMAIN cache \/ cache'[k] # cache[k]) =>
                  \E w \in Workers :
                      /\ ComputesStatus(w)
                      /\ k = ReqKey(w)
                      /\ cache'[k].whois = probeRes[w].whois
                      /\ cache'[k].dns = probeRes'[w].dns
                      /\ cache'[k].status = probeRes'[w].status]_vars

\* C23 witness: WHOIS answered "available", then DNS answered "taken", and the verdict
\* stored is "taken": it was built after the second outcome
C23_Witness ==
    /\ pc["w1"] = "done" /\ req["w1"].kind = "single"
    /\ probeRes["w1"].whois = DictOutcome("available")
    /\ probeRes["w1"].dns = DictOutcome("taken")
    /\ ReqKey("w1") \in DOMAIN cache
    /\ cache[ReqKey("w1")].status = "taken"
    /\ cache[ReqKey("w1")].dns = DictOutcome("taken")

\* the operation of the probe call of worker w ends in this step, after its timeout
CompletesLate(w) ==
    /\ InCall(w) /\ call[w].st = "joining"
    /\ call'[w].st # "joining"

\* the outcome the wrapper hands to the handler of worker w in this step
Received(w) == IF pc[w] = "whois" THEN probeRes'[w].whois ELSE probeRes'[w].dns

\* the verdict e is built from the WHOIS outcome the handler held and from TimedOut
BuiltFromTimedOut(w, e) ==
    /\ e.whois = probeRes[w].whois
    /\ e.dns = WrapperOnTimeout
    /\ e.status = FuseStatus(probeRes[w].whois, WrapperOnTimeout)

\* C24: when the operation of a probe ends after its timeout, whatever it returned or
\* raised, the outcome the handler gets is TimedOut; the status, the verdict and the
\* cache entry built in that step are built from TimedOut and every other cache entry
\* stays as it is; a TimedOut outcome the handler holds stays TimedOut until the status
\* is computed, and once the request has its response no step changes the outcomes,
\* the response or a cache entry.
C24_LateCompletionDiscarded ==
    [][\A w \in Workers :
          /\ CompletesLate(w) =>
                /\ Received(w) = WrapperOnTimeout
                /\ pc[w] = "whois" => (cache' = cache /\ resp'[w] = resp[w])
                /\ pc[w] = "dns" =>
                      /\ probeRes'[w].whois = probeRes[w].whois
                      /\ probeRes'[w].status = FuseStatus(probeRes[w].whois, WrapperOnTimeout)
                      /\ DOMAIN cache \subseteq DOMAIN cache'
                      /\ \A k \in DOMAIN cache' :
                            \/ k \in DOMAIN cache /\ cache'[k] = cache[k]
                            \/ k = ReqKey(w) /\ BuiltFromTimedOut(w, cache'[k])
                      /\ (req[w].kind = "single" /\ resp'[w].code = 200) =>
                            BuiltFromTimedOut(w, resp'[w].results[1])
          /\ (pc[w] = "dns" /\ probeRes[w].whois = WrapperOnTimeout) =>
                probeRes'[w].whois = WrapperOnTimeout
          /\ (pc[w] = "done" /\ pc'[w] = "done") =>
                /\ probeRes'[w] = probeRes[w]
                /\ resp'[w] = resp[w]
                /\ \A k \in DOMAIN cache' : k \in DOMAIN cache /\ cache'[k] = cache[k]]_vars

\* C24 witness: the DNS lookup of a single check ended after its timeout; the verdict
\* with the WHOIS outcome "taken" and the DNS outcome TimedOut was returned and stored
C24_Witness ==
    /\ pc["w1"] = "done"
    /\ req["w1"].kind = "single"
    /\ resp["w1"].code = 200
    /\ probeRes["w1"].whois = DictOutcome("taken")
    /\ probeRes["w1"].dns = WrapperOnTimeout
    /\ resp["w1"].results[1].dns = WrapperOnTimeout
    /\ resp["w1"].results[1].status = "taken"
    /\ ReqKey("w1") \in DOMAIN cache
    /\ cache[ReqKey("w1")].dns = WrapperOnTimeout

(***************************************************************************)
(* Claims about names and keys (checked under SpecK)                       *)
(***************************************************************************)
\* the raw label of a single check or of a one-item bulk check
RawLabel(rq) == IF rq.kind = "single" THEN ArgsGet(rq.domain, <<>>) ELSE rq.domains[1]

\* the canonical (label, tld) pair of a request as the specification normalizes it:
\* both trimmed and lowercased, the TLD without its leading dot, "com" when absent
ClaimPair(rq) ==
    <<Lower(Strip(RawLabel(rq))),
      IF rq.tld.kind = "str" THEN StripOneDot(Lower(Strip(rq.tld.s))) ELSE COM>>

\* the verdict e is about the pair p
Describes(e, p) == e.domain = p[1] \o <<".">> \o p[2] /\ e.tld = p[2]

\* the cache c holds an entry about the pair p
Holds(c, p) == \E k \in DOMAIN c : Describes(c[k], p)

\* worker w takes up a request in this step
TakesUp(w) == pc[w] = "idle" /\ pc'[w] # "idle"

\* worker w answered its request from the cache alone
ServedFromCache(w) ==
    /\ pc[w] = "done" /\ resp[w].code = 200
    /\ stats[w].whois = 0
    /\ Len(resp[w].results) = 1 /\ resp[w].results[1].cached = TRUE

\* worker w ends the resolution of its request with a verdict in this step
EndsResolution(w) == pc[w] = "dns" /\ pc'[w] = "done" /\ resp'[w].code = 200

\* C25: a request, single or bulk, is answered from the cache exactly when the cache
\* holds an entry about the canonical pair of its raw label and raw TLD, whatever the
\* case, the surrounding whitespace and the leading dot they were written with, and
\* then with that entry; otherwise it resolves that pair and stores the verdict as the
\* one entry about the pair; no two keys of the cache hold entries about the same pair.
C25_CacheKeyIdentity ==
    /\ [](\A k1, k2 \in DOMAIN cache :
            (cache[k1].domain = cache[k2].domain /\ cache[k1].tld = cache[k2].tld) => k1 = k2)
    /\ [][\A w \in Workers :
              /\ TakesUp(w) =>
                    IF Holds(cache, ClaimPair(req'[w]))
                    THEN /\ ServedFromCache(w)'
                         /\ Describes(resp'[w].results[1], ClaimPair(req'[w]))
                         /\ cache' = cache
                    ELSE /\ pc'[w] = "whois"
                         /\ <<cur'[w].name, cur'[w].tld>> = ClaimPair(req'[w])
              /\ EndsResolution(w) =>
                    /\ Describes(resp'[w].results[1], ClaimPair(req[w]))
                    /\ Cardinality(DOMAIN cache') = Cardinality(DOMAIN cache) + 1
                    /\ \E k \in (DOMAIN cache') \ (DOMAIN cache) :
                          Describes(cache'[k], ClaimPair(req[w]))]_vars

\* C25 witness: while the cache holds entries about ab.com, ab.io and ba.com, the single
\* check of " Ab " with the TLD ".COM" is answered from the cache with the entry of ab.com
C25_Witness ==
    /\ ServedFromCache("w1")
    /\ req["w1"] = SingleReq(Str(<<" ", "A", "b", " ">>), Str(<<".", "C", "O", "M">>))
    /\ resp["w1"].results[1].domain = <<"a", "b", ".", "c", "o", "m">>
    /\ Holds(cache, <<<<"a", "b">>, <<"i", "o">>>>)
    /\ Holds(cache, <<<<"b", "a">>, COM>>)

\* the canonical pair of item i of a request (a single check has one item)
PairOfItem(rq, i) ==
    <<Lower(Strip(IF rq.kind = "single" THEN ArgsGet(rq.domain, <<>>) ELSE rq.domains[i])),
      IF rq.tld.kind = "str" THEN StripOneDot(Lower(Strip(rq.tld.s))) ELSE COM>>

\* the number of items of a request
ItemCount(rq) == IF rq.kind = "single" THEN 1 ELSE Len(rq.domains)

\* the entry e, found under the key k, is about the name the key is made of
KeyDescribes(k, e) ==
    \E n \in 1..Len(e.domain) :
        /\ e.domain = SubSeq(e.domain, 1, n) \o <<".">> \o e.tld
        /\ k = CacheKey(variant, SubSeq(e.domain, 1, n), e.tld)

\* C26: every entry of the cache is a verdict with status "available" or "taken" and
\* cached = false, its domain is a label, a dot and its tld, and it is about the name
\* its key is made of; every verdict of a 200 response has status "available" or
\* "taken" and is about the canonical pair of an item of the request: its domain is the
\* label, a dot and the TLD, its tld the TLD.
C26_VerdictConsistency ==
    /\ \A k \in DOMAIN cache :
          /\ cache[k].status \in {"available", "taken"}
          /\ cache[k].cached = FALSE
          /\ KeyDescribes(k, cache[k])
    /\ \A w \in Workers :
          (pc[w] = "done" /\ resp[w].code = 200) =>
              /\ req[w].kind = "single" =>
                    /\ Len(resp[w].results) = 1
                    /\ resp[w].results[1].status \in {"available", "taken"}
              /\ \A j \in 1..Len(resp[w].results) :
                    resp[w].results[j].status # "error" =>
                        /\ resp[w].results[j].status \in {"available", "taken"}
                        /\ \E i \in 1..ItemCount(req[w]) :
                              Describes(resp[w].results[j], PairOfItem(req[w], i))

\* C26 witness: the single check of " Ab " with the TLD " .Io " resolved to "taken"; the
\* verdict returned and the entry stored under its key are about ab.io
C26_Witness ==
    /\ pc["w1"] = "done" /\ resp["w1"].code = 200 /\ stats["w1"].puts = 1
    /\ req["w1"] = SingleReq(Str(<<" ", "A", "b", " ">>), Str(<<" ", ".", "I", "o", " ">>))
    /\ resp["w1"].results[1].domain = <<"a", "b", ".", "i", "o">>
    /\ resp["w1"].results[1].tld = <<"i", "o">>
    /\ resp["w1"].results[1].status = "taken"
    /\ ReqKey("w1") \in DOMAIN cache
    /\ cache[ReqKey("w1")].domain = <<"a", "b", ".", "i", "o">>
    /\ cache[ReqKey("w1")].cached = FALSE

(***************************************************************************)
(* Claims about duplicates in a batch (checked under Spec)                 *)
(***************************************************************************)
\* the positions of a batch whose item passes validation
ValidItems(rq) ==
    {i \in 1..Len(rq.domains) : ValidateBulkItem(variant, rq.domains[i], rq.tld).error = "None"}

\* the results the bulk request of worker w has collected, or answered with
Served(w) ==
    IF pc[w] = "done" /\ resp[w].code = 200 THEN resp[w].results ELSE acc[w].results

\* the valid items, among those the loop of worker w has gone through, whose pair the
\* entry e is about
Occurrences(w, e) ==
    {i \in ValidItems(req[w]) : i <= stats[w].items /\ Describes(e, PairOfItem(req[w], i))}

\* e and f agree in status, whois and dns
SameFinding(e, f) == e.status = f.status /\ e.whois = f.whois /\ e.dns = f.dns

\* C27: a bulk request calls check_whois at most once for every distinct valid pair of
\* its batch; the result of every later occurrence of a pair has cached = true and the
\* status, whois and dns of the result of its first occurrence (app: results are in
\* the order of the items; script: results has one entry per name, which after a second
\* occurrence is the copy read from the cache, equal in status, whois and dns to the
\* entry stored).
C27_DuplicatesInBatch ==
    \A w \in Workers :
        (req[w].kind = "bulk" /\ BulkPrecheck(variant, req[w].domains) = "None") =>
            /\ stats[w].whois
                  <= Cardinality({PairOfItem(req[w], i) : i \in ValidItems(req[w])})
            /\ variant = "app" =>
                  \A j \in 1..Len(Served(w)) : \A i \in 1..(j - 1) :
                      (i \in ValidItems(req[w])
                          /\ PairOfItem(req[w], i) = PairOfItem(req[w], j)) =>
                          /\ Served(w)[j].cached = TRUE
                          /\ SameFinding(Served(w)[j], Served(w)[i])
            /\ variant = "script" =>
                  \A n \in 1..Len(Served(w)) :
                      Cardinality(Occurrences(w, Served(w)[n])) >= 2 =>
                          /\ Served(w)[n].cached = TRUE
                          /\ \A k \in DOMAIN cache :
                                (cache[k].domain = Served(w)[n].domain
                                    /\ cache[k].tld = Served(w)[n].tld) =>
                                    SameFinding(Served(w)[n], cache[k])

\* C27 witness: the batch [ab, ab] met an empty cache; the probes were called once, the
\* first result is the fresh verdict "taken" and the second is the same verdict with
\* cached = true
C27_Witness ==
    /\ variant = "app"
    /\ pc["w1"] = "done" /\ resp["w1"].code = 200
    /\ req["w1"] = BulkReq(<<<<"a", "b">>, <<"a", "b">>>>, Absent)
    /\ stats["w1"].whois = 1 /\ stats["w1"].dns = 1 /\ stats["w1"].puts = 1
    /\ resp["w1"].results[1].cached = FALSE
    /\ resp["w1"].results[1].status = "taken"
    /\ resp["w1"].results[2].cached = TRUE
    /\ resp["w1"].results[2].status = "taken"

(***************************************************************************)
(* Wrapper claims (checked under SpecW)                                    *)
(***************************************************************************)
\* C16: when the wrapped operation raises, the wrapper returns (the exception does not
\* reach the caller) and what it returns is an Error outcome in the form the probes
\* return theirs: a dict whose "status" is "error".
C16_ExceptionMapping ==
    \A w \in Workers :
        (pc[w] = "done" /\ call[w].st = "raised") =>
            /\ WResult(w).kind = "dict"
            /\ WResult(w).val = "error"

=============================================================================
